---- MODULE Spec2Model ----
(***************************************************************************)
(* Model of torchshapelets/discrepancies.py: the module import, the        *)
(* constructors of L2Discrepancy and LogsignatureDiscrepancy, and their    *)
(* forward methods.                                                        *)
(*                                                                         *)
(* A tensor value is a record [shape, data]: shape is the sequence of      *)
(* dimension sizes and data the entries in row-major order.  forward works *)
(* on tensor objects, views of storages held in a memory, so that what an  *)
(* in-place operation changes, and for whom, follows from the object it is *)
(* called on.  Entries are integers.  Path and time samples are            *)
(* drawn from even integers, which makes every depth-2 logsignature term   *)
(* (a Levy area, half of an integer combination of products of             *)
(* increments) an integer.  A square root is kept exact: the real number   *)
(* (coef / den) * sqrt(rad) is the record [coef, rad, den] with rad        *)
(* square-free and coef / den in lowest terms, so that two such records    *)
(* are equal exactly when the numbers are.                                 *)
(***************************************************************************)
EXTENDS Integers, Sequences, FiniteSets

VARIABLES env, module, inst, ctor, call

vars == <<env, module, inst, ctor, call>>

(***************************************************************************)
(* Bounds of the model.                                                    *)
(***************************************************************************)
MaxChannels == 2

\* the pairs of batch shapes (of path1, of path2) that calls are made with
BatchPairs ==
    {<<(<< >>), (<< >>)>>, <<(<< >>), (<<3>>)>>, <<(<<2>>), (<<2>>)>>,
     <<(<<2>>), (<<3>>)>>, <<(<<2, 2>>), (<<3>>)>>, <<(<<3, 2>>), (<<2>>)>>}
Lengths == {3}
Seeds == {0, 1}
Depths == {1, 2}
Norms == {"1", "2", "inf"}
MetricTypes == {"general", "diagonal", "bogus"}

(***************************************************************************)
(* Integer helpers.                                                        *)
(***************************************************************************)
Abs(x) == IF x < 0 THEN -x ELSE x

RECURSIVE Prod(_)
Prod(s) == IF s = << >> THEN 1 ELSE Head(s) * Prod(Tail(s))

RECURSIVE SumTo(_, _)
\* f[1] + ... + f[n]
SumTo(f, n) == IF n = 0 THEN 0 ELSE f[n] + SumTo(f, n - 1)

RECURSIVE MaxTo(_, _)
\* max(f[1], ..., f[n]), 0 for n = 0
MaxTo(f, n) ==
    IF n = 0 THEN 0
    ELSE LET m == MaxTo(f, n - 1) IN IF f[n] > m THEN f[n] ELSE m

RECURSIVE Pow(_, _)
Pow(b, e) == IF e = 0 THEN 1 ELSE b * Pow(b, e - 1)

RECURSIVE Gcd(_, _)
Gcd(a, b) == IF b = 0 THEN a ELSE Gcd(b, a % b)

RECURSIVE SquarePart(_, _, _)
\* the largest k >= best with k * k dividing n, for n > 0, searching from k
SquarePart(n, k, best) ==
    IF k * k > n THEN best
    ELSE SquarePart(n, k + 1, IF n % (k * k) = 0 THEN k ELSE best)

\* the real number sqrt(n) / d for integers n >= 0 and d > 0, exactly:
\* sqrt(n) = k * sqrt(n / k^2) for the largest square k^2 dividing n
SqrtOver(n, d) ==
    IF n = 0 THEN [coef |-> 0, rad |-> 1, den |-> 1]
    ELSE LET k == SquarePart(n, 1, 1)
             g == Gcd(k, d)
         IN  [coef |-> k \div g, rad |-> n \div (k * k), den |-> d \div g]

\* the real number sqrt(n)
Sqrt(n) == SqrtOver(n, 1)

(***************************************************************************)
(* torch tensor operations used by forward.                                *)
(***************************************************************************)
Tensor(shape, data) == [shape |-> shape, data |-> data]

Rank(t) == Len(t.shape)

LastDim(t) == t.shape[Len(t.shape)]

\* t.shape[:-2]
BatchDims(t) == SubSeq(t.shape, 1, Len(t.shape) - 2)

\* shape[:-1]
ButLast(s) == SubSeq(s, 1, Len(s) - 1)

RECURSIVE Unravel(_, _)
\* the 0-based multi-index of the 0-based flat offset n in a row-major
\* tensor of the given shape
Unravel(n, shape) ==
    IF shape = << >> THEN << >>
    ELSE LET inner == Prod(Tail(shape))
         IN  <<n \div inner>> \o Unravel(n % inner, Tail(shape))

\* Tensor.expand(*to) is defined when the ranks agree and every dimension
\* either agrees or has size 1 in t
ExpandOK(t, to) ==
    /\ Len(to) = Len(t.shape)
    /\ \A k \in 1..Len(to) : t.shape[k] = to[k] \/ t.shape[k] = 1

\* torch.cat([a, b], dim=-1) of two tensors that agree on all but the last
\* dimension
CatLast(a, b) ==
    LET ca == LastDim(a)
        cb == LastDim(b)
        rows == Prod(ButLast(a.shape))
    IN  Tensor(ButLast(a.shape) \o <<ca + cb>>,
               [n \in 1..(rows * (ca + cb)) |->
                   LET r == (n - 1) \div (ca + cb)
                       c == (n - 1) % (ca + cb)
                   IN  IF c < ca THEN a.data[r * ca + c + 1]
                       ELSE b.data[r * cb + (c - ca) + 1]])

\* a - b for tensors of one shape
Sub(a, b) == Tensor(a.shape, [n \in 1..Len(a.data) |-> a.data[n] - b.data[n]])

\* t @ m for a matrix m of shape (d, d) and t of shape (..., d)
MatMul(t, m) ==
    LET d == LastDim(t)
    IN  Tensor(t.shape,
               [n \in 1..Len(t.data) |->
                   LET r == (n - 1) \div d
                       k == (n - 1) % d
                   IN  SumTo([j \in 1..d |-> t.data[r * d + j] * m.data[(j - 1) * d + k + 1]], d)])

\* t * v broadcasts the vector v of shape (dv,) against the last dimension
\* of t: defined when the sizes agree or one of them is 1
MulOK(t, v) == LastDim(t) = LastDim(v) \/ LastDim(t) = 1 \/ LastDim(v) = 1

Mul(t, v) ==
    LET dt == LastDim(t)
        dv == LastDim(v)
        d == IF dt > dv THEN dt ELSE dv
        rows == Prod(ButLast(t.shape))
    IN  Tensor(ButLast(t.shape) \o <<d>>,
               [n \in 1..(rows * d) |->
                   LET r == (n - 1) \div d
                       k == (n - 1) % d
                   IN  t.data[r * dt + (IF dt = 1 THEN 0 ELSE k) + 1]
                         * v.data[(IF dv = 1 THEN 0 ELSE k) + 1]])

\* the p-norm of a vector given as a function on 1..d: an integer for p = 1
\* and p = inf, the exact square root of the sum of squares for p = 2
VecNorm(v, d, p) ==
    CASE p = "1" -> SumTo([k \in 1..d |-> Abs(v[k])], d)
      [] p = "2" -> Sqrt(SumTo([k \in 1..d |-> v[k] * v[k]], d))
      [] p = "inf" -> MaxTo([k \in 1..d |-> Abs(v[k])], d)

\* Tensor.norm(p, dim=-1)
Norm(t, p) ==
    LET d == LastDim(t)
        rows == Prod(ButLast(t.shape))
    IN  Tensor(ButLast(t.shape),
               [r \in 1..rows |-> VecNorm([k \in 1..d |-> t.data[(r - 1) * d + k]], d, p)])

(***************************************************************************)
(* torch's memory.  A tensor object is a view [store, shape, strides] of a *)
(* storage, and a memory is a record [objs, stores, ret]: the tensor       *)
(* objects, the storages (flat sequences of entries), and the object the   *)
(* last operation returned.  An operation that returns a view adds an      *)
(* object over the storage of the object it is called on; an operation     *)
(* that computes adds a storage and an object over it; an in-place         *)
(* operation changes the object it is called on, which every holder of     *)
(* that object then sees.                                                  *)
(***************************************************************************)
Memory0 == [objs |-> << >>, stores |-> << >>, ret |-> 0]

\* the strides of a contiguous tensor of the given shape
ContigStrides(shape) ==
    [k \in 1..Len(shape) |-> Prod(SubSeq(shape, k + 1, Len(shape)))]

AddObj(h, ob) == [h EXCEPT !.objs = Append(@, ob), !.ret = Len(h.objs) + 1]

\* the function f on 1..n as the sequence of its n entries
Entries(f, n) == SubSeq(f, 1, n)

\* a tensor over a storage of its own: the result of an operation that
\* computes (cat, logsignature, -, @, *, norm), or a tensor of the caller
New(h, t) ==
    AddObj([h EXCEPT !.stores = Append(@, Entries(t.data, Len(t.data)))],
           [store |-> Len(h.stores) + 1, shape |-> t.shape,
            strides |-> ContigStrides(t.shape)])

\* the shape and entries of object o, read through its strides
Value(h, o) ==
    LET ob == h.objs[o]
    IN  Tensor(ob.shape,
               Entries([n \in 1..Prod(ob.shape) |->
                           LET idx == Unravel(n - 1, ob.shape)
                           IN  h.stores[ob.store]
                                   [SumTo([k \in 1..Len(idx) |-> idx[k] * ob.strides[k]],
                                          Len(idx)) + 1]],
                       Prod(ob.shape)))

\* the view with a dimension of size 1 at the 0-based position pos
Unsqueezed(ob, pos) ==
    LET r == Len(ob.shape)
        stride == IF pos < r THEN ob.shape[pos + 1] * ob.strides[pos + 1] ELSE 1
    IN  [store |-> ob.store,
         shape |-> SubSeq(ob.shape, 1, pos) \o <<1>> \o SubSeq(ob.shape, pos + 1, r),
         strides |-> SubSeq(ob.strides, 1, pos) \o <<stride>>
                       \o SubSeq(ob.strides, pos + 1, r)]

\* Tensor.unsqueeze_(pos): object o itself gets the dimension and is returned
OpUnsqueezeInPlace(h, o, pos) ==
    [h EXCEPT !.objs[o] = Unsqueezed(h.objs[o], pos), !.ret = o]

\* Tensor.unsqueeze(pos): a new object over the storage of o
OpUnsqueeze(h, o, pos) == AddObj(h, Unsqueezed(h.objs[o], pos))

\* Tensor.expand(*to): a new object over the storage of o, with stride 0 in
\* the dimensions that are expanded
OpExpand(h, o, to) ==
    LET ob == h.objs[o]
    IN  AddObj(h, [store |-> ob.store, shape |-> to,
                   strides |-> [k \in 1..Len(to) |->
                                   IF ob.shape[k] = 1 /\ to[k] # 1 THEN 0
                                   ELSE ob.strides[k]]])

\* Tensor.view(*shape) of a contiguous tensor: a new object over the storage
\* of o
OpView(h, o, shape) ==
    AddObj(h, [store |-> h.objs[o].store, shape |-> shape,
               strides |-> ContigStrides(shape)])

(***************************************************************************)
(* The signatory library, as forward and __init__ use it.                  *)
(***************************************************************************)
Divisors(n) == {d \in 1..n : n % d = 0}

RECURSIVE SumSet(_, _)
\* the sum of f[x] over the finite set S
SumSet(f, S) ==
    IF S = {} THEN 0
    ELSE LET x == CHOOSE y \in S : TRUE IN f[x] + SumSet(f, S \ {x})

RECURSIVE Mobius(_)
Mobius(n) ==
    IF n = 1 THEN 1
    ELSE -SumSet([d \in Divisors(n) \ {n} |-> Mobius(d)], Divisors(n) \ {n})

\* the number of Lyndon words of length k over c letters (Witt's formula)
LyndonCount(c, k) ==
    SumSet([d \in Divisors(k) |-> Mobius(d) * Pow(c, k \div d)], Divisors(k)) \div k

\* signatory.logsignature_channels(channels, depth)
LogsignatureChannels(c, depth) ==
    SumTo([k \in 1..depth |-> LyndonCount(c, k)], depth)

\* the entry of the path tensor t of shape (N, L, C) at 1-based (n, l, c)
At(t, n, l, c) ==
    t.data[((n - 1) * t.shape[2] + (l - 1)) * t.shape[3] + c]

\* the k-th increment of channel c of path n
Delta(t, n, k, c) == At(t, n, k + 1, c) - At(t, n, k, c)

\* depth 1: the total increment of channel c
Level1(t, n, c) == At(t, n, t.shape[2], c) - At(t, n, 1, c)

\* depth 2: the coefficient of the Lyndon word (i, j), i < j, the Levy area
\* of channels i and j of the piecewise linear path
Level2(t, n, i, j) ==
    LET segs == t.shape[2] - 1
        inner(l) == SumTo([k \in 1..segs |->
                        IF k < l
                        THEN Delta(t, n, k, i) * Delta(t, n, l, j)
                               - Delta(t, n, k, j) * Delta(t, n, l, i)
                        ELSE 0], segs)
    IN  SumTo([l \in 1..segs |-> inner(l)], segs) \div 2

RECURSIVE LyndonPairs(_, _, _)
\* the words (i, j), i < j, over 1..c in lexicographic order from (i, j) on
LyndonPairs(i, j, c) ==
    IF i >= c THEN << >>
    ELSE IF j > c THEN LyndonPairs(i + 1, i + 2, c)
    ELSE <<(<<i, j>>)>> \o LyndonPairs(i, j + 1, c)

\* the logsignature of path n of t, to the given depth (1 or 2)
LogsigOne(t, n, depth) ==
    LET c == t.shape[3]
        first == [k \in 1..c |-> Level1(t, n, k)]
        pairs == LyndonPairs(1, 2, c)
        second == [k \in 1..Len(pairs) |-> Level2(t, n, pairs[k][1], pairs[k][2])]
    IN  IF depth = 1 THEN first ELSE first \o second

RECURSIVE ConcatRows(_, _)
\* rows[1] \o ... \o rows[n]
ConcatRows(rows, n) == IF n = 0 THEN << >> ELSE ConcatRows(rows, n - 1) \o rows[n]

\* signatory.Logsignature(depth)(t) for t of shape (N, L, C): shape (N, D)
Logsignature(t, depth) ==
    LET n == t.shape[1]
        rows == [k \in 1..n |-> LogsigOne(t, k, depth)]
    IN  Tensor(<<n, Len(rows[1])>>, ConcatRows(rows, n))

(***************************************************************************)
(* Values of the state.                                                    *)
(***************************************************************************)
\* Python's None where a tensor is expected; also "no value returned"
None == Tensor(<< >>, << >>)

NoInst ==
    [cls |-> "none", in_channels |-> 0, depth |-> 0, p |-> "none",
     include_time |-> FALSE, pseudometric |-> FALSE, metric_type |-> "none",
     linear |-> None, logsignature |-> FALSE]

NoCtor == [cls |-> "none", metric_type |-> "none", error |-> "none", created |-> << >>]

NoCall ==
    [cls |-> "none", self |-> NoInst, times |-> None, path1 |-> None, path2 |-> None,
     status |-> "none", work |-> << >>, chans |-> << >>, diff |-> None,
     value |-> None, after |-> <<None, None, None>>, selfAfter |-> NoInst,
     again |-> FALSE, first |-> << >>]

(***************************************************************************)
(* Inputs: a strictly increasing time grid, paths and parameter values,    *)
(* each drawn from a family indexed by a seed.                             *)
(***************************************************************************)
TimesOf(len) == Tensor(<<len>>, [k \in 1..len |-> (k - 1) * k])

PathOf(batch, len, chans, s) ==
    Tensor(batch \o <<len, chans>>,
           [n \in 1..(Prod(batch) * len * chans) |-> 2 * (((n * n + s * n + s) % 5) - 2)])

ParamOf(shape, s) ==
    Tensor(shape, [n \in 1..Prod(shape) |-> ((2 * n + s) % 3) - 1])

Channels == 1..MaxChannels

(***************************************************************************)
(* Module import (lines 1-8) and the class body of L2Discrepancy (line 32) *)
(***************************************************************************)
\* lines 2-8 and 32: the signatory import is guarded (lines 2-5), the
\* import of _impl (line 8) is not, and the class body of L2Discrepancy binds
\* fn to _impl.l2_discrepancy
ImportResult(e) ==
    IF e.impl
    THEN [state |-> "loaded", signatory |-> e.signatory, fn |-> "_impl.l2_discrepancy"]
    ELSE [state |-> "ImportError", signatory |-> FALSE, fn |-> "none"]

ImportModule ==
    /\ module.state = "unloaded"
    /\ module' = ImportResult(env)
    /\ UNCHANGED <<env, inst, ctor, call>>

(***************************************************************************)
(* Constructors.                                                           *)
(***************************************************************************)
\* mutant: the assertion is missing
MetricTypeValidMut(metric_type) == TRUE

\* the assertion of lines 68 and 133
MetricTypeValid(metric_type) == metric_type \in {"general", "diagonal"}

\* mutant: the constructor does not look at signatory
SignatoryMissingMut(m) == FALSE

\* line 134
SignatoryMissing(m) == ~m.signatory

\* mutant: the time channel is not counted
ParamChannelsMut(in_channels, include_time) == in_channels

\* lines 148-150
ParamChannels(in_channels, include_time) ==
    IF include_time THEN in_channels + 1 ELSE in_channels

\* lines 74-83: the 'arg' parameter of L2Discrepancy.  torch.empty(()) is
\* an uninitialised scalar, whatever value the seed gives it
L2Arg(in_channels, pseudometric, metric_type, s) ==
    IF pseudometric
    THEN IF metric_type = "general"
         THEN ParamOf(<<in_channels, in_channels>>, s)
         ELSE ParamOf(<<in_channels>>, s)
    ELSE ParamOf(<< >>, s)

\* lines 147-160: the 'linear' parameter of LogsignatureDiscrepancy
LogsigLinear(in_channels, depth, include_time, pseudometric, metric_type, s) ==
    IF pseudometric
    THEN LET d == LogsignatureChannels(ParamChannels(in_channels, include_time), depth)
         IN  IF metric_type = "general"
             THEN ParamOf(<<d, d>>, s)
             ELSE ParamOf(<<d>>, s)
    ELSE None

\* L2Discrepancy.__init__: the pair of the instance built and the record of
\* the construction
L2Construct(in_channels, pseudometric, metric_type, s) ==
    IF ~MetricTypeValid(metric_type)
    THEN <<NoInst, [cls |-> "L2", metric_type |-> metric_type,
                    error |-> "AssertionError", created |-> << >>]>>
    ELSE <<[cls |-> "L2", in_channels |-> in_channels, depth |-> 0, p |-> "none",
            include_time |-> FALSE, pseudometric |-> pseudometric,
            metric_type |-> metric_type,
            linear |-> L2Arg(in_channels, pseudometric, metric_type, s),
            logsignature |-> FALSE],
           [cls |-> "L2", metric_type |-> metric_type, error |-> "none",
            created |-> <<"arg">>]>>

\* LogsignatureDiscrepancy.__init__
LogsigConstruct(m, in_channels, depth, p, include_time, pseudometric, metric_type, s) ==
    IF ~MetricTypeValid(metric_type)
    THEN <<NoInst, [cls |-> "Logsig", metric_type |-> metric_type,
                    error |-> "AssertionError", created |-> << >>]>>
    ELSE IF SignatoryMissing(m)
    THEN <<NoInst, [cls |-> "Logsig", metric_type |-> metric_type,
                    error |-> "ImportError", created |-> << >>]>>
    ELSE <<[cls |-> "Logsig", in_channels |-> in_channels, depth |-> depth, p |-> p,
            include_time |-> include_time, pseudometric |-> pseudometric,
            metric_type |-> metric_type,
            linear |-> LogsigLinear(in_channels, depth, include_time, pseudometric,
                                    metric_type, s),
            logsignature |-> TRUE],
           [cls |-> "Logsig", metric_type |-> metric_type, error |-> "none",
            created |-> (IF pseudometric THEN <<"linear">> ELSE << >>)
                          \o <<"logsignature">>]>>

L2Init ==
    /\ module.state = "loaded"
    /\ inst = NoInst
    /\ \E in_channels \in Channels, pseudometric \in BOOLEAN,
          metric_type \in MetricTypes, s \in Seeds :
          LET r == L2Construct(in_channels, pseudometric, metric_type, s)
          IN  /\ inst' = r[1]
              /\ ctor' = r[2]
    /\ call' = NoCall
    /\ UNCHANGED <<env, module>>

LogsigInit ==
    /\ module.state = "loaded"
    /\ inst = NoInst
    /\ \E in_channels \in Channels, depth \in Depths, p \in Norms,
          include_time \in BOOLEAN, pseudometric \in BOOLEAN,
          metric_type \in MetricTypes, s \in Seeds :
          LET r == LogsigConstruct(module, in_channels, depth, p, include_time,
                                   pseudometric, metric_type, s)
          IN  /\ inst' = r[1]
              /\ ctor' = r[2]
    /\ call' = NoCall
    /\ UNCHANGED <<env, module>>

\* the caller drops the instance
Discard ==
    /\ inst # NoInst
    /\ inst' = NoInst
    /\ ctor' = NoCtor
    /\ call' = NoCall
    /\ UNCHANGED <<env, module>>

\* the caller is done with the value a call returned or the error it raised
Return ==
    /\ call # NoCall
    /\ call' = NoCall
    /\ UNCHANGED <<env, module, inst, ctor>>

\* between calls, the external learning procedure updates the values of the parameter
OptimizerStep ==
    /\ inst # NoInst
    /\ call = NoCall
    /\ inst.linear # None
    /\ \E s \in Seeds :
          /\ ParamOf(inst.linear.shape, s) # inst.linear
          /\ inst' = [inst EXCEPT !.linear = ParamOf(inst.linear.shape, s)]
    /\ UNCHANGED <<env, module, ctor, call>>

(***************************************************************************)
(* A call of forward.  The caller's times, path1 and path2 and the         *)
(* parameter of the instance are tensor objects that exist before the call *)
(* and after it; forward works on them by reference.                       *)
(***************************************************************************)
\* the objects the arguments of forward(self, times, path1, path2) are bound
\* to on entry, and the object of the instance's parameter
Args == [times |-> 1, path1 |-> 2, path2 |-> 3, param |-> 4]

CallerMemory(i, times, path1, path2) ==
    LET h == New(New(New(Memory0, times), path1), path2)
    IN  IF i.linear = None THEN h ELSE New(h, i.linear)

\* the caller's three tensors, as memory h has them
TensorsIn(h) == <<Value(h, Args.times), Value(h, Args.path1), Value(h, Args.path2)>>

\* the instance, as memory h has its parameter.  forward assigns no
\* attribute of self
SelfIn(i, h) ==
    [i EXCEPT !.linear = IF i.linear = None THEN None ELSE Value(h, Args.param)]

(***************************************************************************)
(* LogsignatureDiscrepancy.forward                                         *)
(***************************************************************************)
\* mutant: line 183 with the in-place unsqueeze_, as lines 202 and 204 have it
TimesColumnMut(h, times) == OpUnsqueezeInPlace(h, times, Len(h.objs[times].shape))

\* line 183: times.unsqueeze(-1)
TimesColumn(h, times) == OpUnsqueeze(h, times, Len(h.objs[times].shape))

RECURSIVE TimeChannel(_, _, _)
\* lines 184-187: for dim in batch_dims:
\*     time_channel = time_channel.unsqueeze(0).expand(dim, *time_channel.shape)
\* each pass puts the next batch dimension in front of those before it
TimeChannel(h, tc, dims) ==
    IF dims = << >> THEN [h EXCEPT !.ret = tc]
    ELSE LET h1 == OpUnsqueeze(h, tc, 0)
             h2 == OpExpand(h1, h1.ret, <<Head(dims)>> \o h.objs[tc].shape)
         IN  TimeChannel(h2, h2.ret, Tail(dims))

\* torch.cat(..., dim=-1) needs its arguments to agree on every other dimension
CatOK(a, b) == ButLast(a.shape) = ButLast(b.shape)

\* lines 188-189: torch.cat([time_channel, path], dim=-1)
Cat(h, tc, path) == New(h, CatLast(Value(h, tc), Value(h, path)))

\* lines 192-193: path.view(-1, path.size(-2), path.size(-1))
Flatten(h, path) ==
    LET shape == h.objs[path].shape
        len == shape[Len(shape) - 1]
        chans == shape[Len(shape)]
    IN  OpView(h, path, <<Prod(shape) \div (len * chans), len, chans>>)

\* lines 195-196: self.logsignature(path)
Signature(h, path, depth) == New(h, Logsignature(Value(h, path), depth))

\* lines 198-199: logsignature.view(*batch_dims, logsignature.size(-1))
Restore(h, logsig, dims) == OpView(h, logsig, dims \o <<LastDim(h.objs[logsig])>>)

RECURSIVE UnsqueezeFront(_, _, _)
\* lines 201-202: one logsignature2.unsqueeze_(0) per batch dimension of path1
UnsqueezeFront(h, o, n) ==
    IF n = 0 THEN h ELSE UnsqueezeFront(OpUnsqueezeInPlace(h, o, 0), o, n - 1)

\* mutant: path1's logsignature is unsqueezed at the front as well, which
\* aligns the two batches elementwise
UnsqueezeBackMut(h, o, n) == UnsqueezeFront(h, o, n)

RECURSIVE UnsqueezeBack(_, _, _)
\* lines 203-204: one logsignature1.unsqueeze_(-2) per batch dimension of path2
UnsqueezeBack(h, o, n) ==
    IF n = 0 THEN h
    ELSE UnsqueezeBack(OpUnsqueezeInPlace(h, o, Len(h.objs[o].shape) - 1), o, n - 1)

\* lines 205-206: the shape both logsignatures are expanded to
PairShape(dims1, dims2, d) == dims1 \o dims2 \o <<d>>

\* lines 210-214 are defined when the sizes fit
TransformOK(i, diff) ==
    \/ ~i.pseudometric
    \/ i.metric_type = "general" /\ LastDim(diff) = i.linear.shape[1]
    \/ i.metric_type # "general" /\ MulOK(diff, i.linear)

\* lines 210-214
Transform(i, diff) ==
    IF i.pseudometric
    THEN IF i.metric_type = "general" THEN MatMul(diff, i.linear) ELSE Mul(diff, i.linear)
    ELSE diff

\* mutant: the logsignatures are added
DifferenceMut(logsignature1, logsignature2) ==
    Tensor(logsignature1.shape,
           [n \in 1..Len(logsignature1.data) |->
               logsignature1.data[n] + logsignature2.data[n]])

\* line 208
Difference(logsignature1, logsignature2) == Sub(logsignature1, logsignature2)

\* The frame of a call of forward: the memory, the objects its local names
\* are bound to (0: not bound yet), and how far the call has come.  Each of
\* the operators below runs some lines of forward on a frame; a frame that
\* has raised stays as it is.
Enter(i, times, path1, path2) ==
    LET h == CallerMemory(i, times, path1, path2)
    IN  [mem |-> h, status |-> "running", work |-> << >>,
         times |-> Args.times, path1 |-> Args.path1, path2 |-> Args.path2,
         \* lines 178-179
         path1_batch_dims |-> BatchDims(h.objs[Args.path1]),
         path2_batch_dims |-> BatchDims(h.objs[Args.path2]),
         time_channel1 |-> 0, time_channel2 |-> 0,
         logsignature1 |-> 0, logsignature2 |-> 0, logsignature_diff |-> 0,
         chans |-> << >>, result |-> 0]

Raise(f) == [f EXCEPT !.status = "RuntimeError"]

\* lines 183-187
TimeChannels(f) ==
    LET hT == TimesColumn(f.mem, f.times)
        h1 == TimeChannel(hT, hT.ret, f.path1_batch_dims)
        h2 == TimeChannel(h1, hT.ret, f.path2_batch_dims)
    IN  [f EXCEPT !.mem = h2, !.time_channel1 = h1.ret, !.time_channel2 = h2.ret,
                  !.work = @ \o <<"unsqueeze", "expand">>]

\* line 188
Cat1(f) ==
    IF f.status # "running" THEN f
    ELSE IF ~CatOK(f.mem.objs[f.time_channel1], f.mem.objs[f.path1]) THEN Raise(f)
    ELSE LET h == Cat(f.mem, f.time_channel1, f.path1)
         IN  [f EXCEPT !.mem = h, !.path1 = h.ret, !.work = @ \o <<"cat">>]

\* line 189
Cat2(f) ==
    IF f.status # "running" THEN f
    ELSE IF ~CatOK(f.mem.objs[f.time_channel2], f.mem.objs[f.path2]) THEN Raise(f)
    ELSE LET h == Cat(f.mem, f.time_channel2, f.path2)
         IN  [f EXCEPT !.mem = h, !.path2 = h.ret, !.work = @ \o <<"cat">>]

\* lines 181-189
AppendTime(i, f) == IF i.include_time THEN Cat2(Cat1(TimeChannels(f))) ELSE f

\* lines 192-193, from which on the channel counts of the two paths are known
Flattened(f) ==
    IF f.status # "running" THEN f
    ELSE LET h1 == Flatten(f.mem, f.path1)
             h2 == Flatten(h1, f.path2)
         IN  [f EXCEPT !.mem = h2, !.path1 = h1.ret, !.path2 = h2.ret,
                       !.chans = <<LastDim(f.mem.objs[f.path1]),
                                   LastDim(f.mem.objs[f.path2])>>,
                       !.work = @ \o <<"view", "view">>]

\* lines 195-196
Signatures(i, f) ==
    IF f.status # "running" THEN f
    ELSE LET h1 == Signature(f.mem, f.path1, i.depth)
             h2 == Signature(h1, f.path2, i.depth)
         IN  [f EXCEPT !.mem = h2, !.logsignature1 = h1.ret, !.logsignature2 = h2.ret,
                       !.work = @ \o <<"logsignature", "logsignature">>]

\* lines 198-199
Restored(f) ==
    IF f.status # "running" THEN f
    ELSE LET h1 == Restore(f.mem, f.logsignature1, f.path1_batch_dims)
             h2 == Restore(h1, f.logsignature2, f.path2_batch_dims)
         IN  [f EXCEPT !.mem = h2, !.logsignature1 = h1.ret, !.logsignature2 = h2.ret,
                       !.work = @ \o <<"view", "view">>]

\* lines 201-204
Aligned(f) ==
    IF f.status # "running" THEN f
    ELSE [f EXCEPT !.mem = UnsqueezeBack(
                               UnsqueezeFront(f.mem, f.logsignature2,
                                              Len(f.path1_batch_dims)),
                               f.logsignature1, Len(f.path2_batch_dims)),
                   !.work = @ \o <<"unsqueeze_", "unsqueeze_">>]

\* the shape lines 205 and 206 expand to.  Line 206 reads
\* logsignature1.size(-1) after line 205 has rebound logsignature1, which
\* gives the same size
PairShapeOf(f) ==
    PairShape(f.path1_batch_dims, f.path2_batch_dims,
              LastDim(f.mem.objs[f.logsignature1]))

\* line 205
Expand1(f) ==
    IF f.status # "running" THEN f
    ELSE IF ~ExpandOK(f.mem.objs[f.logsignature1], PairShapeOf(f)) THEN Raise(f)
    ELSE LET h == OpExpand(f.mem, f.logsignature1, PairShapeOf(f))
         IN  [f EXCEPT !.mem = h, !.logsignature1 = h.ret, !.work = @ \o <<"expand">>]

\* line 206
Expand2(f) ==
    IF f.status # "running" THEN f
    ELSE IF ~ExpandOK(f.mem.objs[f.logsignature2], PairShapeOf(f)) THEN Raise(f)
    ELSE LET h == OpExpand(f.mem, f.logsignature2, PairShapeOf(f))
         IN  [f EXCEPT !.mem = h, !.logsignature2 = h.ret, !.work = @ \o <<"expand">>]

\* line 208
Subtracted(f) ==
    IF f.status # "running" THEN f
    ELSE LET h == New(f.mem, Difference(Value(f.mem, f.logsignature1),
                                        Value(f.mem, f.logsignature2)))
         IN  [f EXCEPT !.mem = h, !.logsignature_diff = h.ret, !.work = @ \o <<"sub">>]

\* lines 210-214
Transformed(i, f) ==
    IF f.status # "running" \/ ~i.pseudometric THEN f
    ELSE LET diff == Value(f.mem, f.logsignature_diff)
             self == SelfIn(i, f.mem)
         IN  IF ~TransformOK(self, diff) THEN Raise(f)
             ELSE LET h == New(f.mem, Transform(self, diff))
                  IN  [f EXCEPT !.mem = h, !.logsignature_diff = h.ret,
                                !.work = @ \o <<"transform">>]

\* line 215
Normed(i, f) ==
    IF f.status # "running" THEN f
    ELSE LET h == New(f.mem, Norm(Value(f.mem, f.logsignature_diff), i.p))
         IN  [f EXCEPT !.mem = h, !.result = h.ret, !.status = "ok",
                       !.work = @ \o <<"norm">>]

\* lines 173-208: up to the logsignature difference
Difference0(i, times, path1, path2) ==
    Subtracted(Expand2(Expand1(Aligned(Restored(Signatures(i,
        Flattened(AppendTime(i, Enter(i, times, path1, path2)))))))))

\* the record of one call of forward(times, path1, path2) on instance i:
\* the instance and the tensors as the call found them (self, times, path1,
\* path2), what it returned or raised, the tensor operations it completed
\* (work), the logsignature difference it formed (diff), and the caller's
\* three tensors (after) and the instance (selfAfter) as the call left them
LogsigForwardResult(i, times, path1, path2) ==
    LET d == Difference0(i, times, path1, path2)
        f == Normed(i, Transformed(i, d))
    IN  [cls |-> "Logsig", self |-> i, times |-> times, path1 |-> path1,
         path2 |-> path2, status |-> f.status, work |-> f.work, chans |-> f.chans,
         diff |-> IF d.status = "running" THEN Value(d.mem, d.logsignature_diff)
                  ELSE None,
         value |-> IF f.status = "ok" THEN Value(f.mem, f.result) ELSE None,
         after |-> TensorsIn(f.mem), selfAfter |-> SelfIn(i, f.mem),
         again |-> FALSE,
         first |-> [status |-> f.status,
                    value |-> IF f.status = "ok" THEN Value(f.mem, f.result) ELSE None]]

\* a first call on the instance
LogsigForward ==
    /\ inst.cls = "Logsig"
    /\ call = NoCall
    /\ \E len \in Lengths, c1 \in Channels, c2 \in Channels, dims \in BatchPairs,
          s1 \in Seeds, s2 \in Seeds :
          call' = LogsigForwardResult(inst, TimesOf(len),
                                      PathOf(dims[1], len, c1, s1),
                                      PathOf(dims[2], len, c2, s2))
    /\ inst' = call'.selfAfter
    /\ UNCHANGED <<env, module, ctor>>

\* the caller makes the same call again: on the instance and with the three
\* tensors as the call before left them
LogsigForwardAgain ==
    /\ call.cls = "Logsig"
    /\ ~call.again
    /\ call' = [LogsigForwardResult(inst, call.after[1], call.after[2], call.after[3])
                   EXCEPT !.again = TRUE, !.first = call.first]
    /\ inst' = call'.selfAfter
    /\ UNCHANGED <<env, module, ctor>>

(***************************************************************************)
(* CppDiscrepancy.forward, inherited by L2Discrepancy, and the kernel      *)
(* _impl.l2_discrepancy it calls.                                          *)
(***************************************************************************)
\* what the kernel requires of its arguments: an unbatched path2, equal
\* channel counts, and a pseudometric argument that fits the channels
L2KernelAccepts(path1, path2, arg) ==
    /\ Rank(path2) = 2
    /\ LastDim(path1) = LastDim(path2)
    /\ path1.shape[Len(path1.shape) - 1] = path2.shape[Len(path2.shape) - 1]
    /\ Rank(arg) > 0 => arg.shape[1] = LastDim(path1)

\* three times the integral over the time grid of ||A(f - g)||^2 for path n
\* of the flattened differences d of shape (N, L, C): on a segment of
\* length h with end values u and v the integral is h (u.u + u.v + v.v) / 3
L2Integral3(times, d, n) ==
    LET len == d.shape[2]
        chans == d.shape[3]
        dot(k, l) == SumTo([c \in 1..chans |-> At(d, n, k, c) * At(d, n, l, c)], chans)
    IN  SumTo([k \in 1..(len - 1) |->
                  (times.data[k + 1] - times.data[k])
                    * (dot(k, k) + dot(k, k + 1) + dot(k + 1, k + 1))], len - 1)

\* path2 of shape (L, C) against path1 of shape (B..., L, C): entry n of the
\* result is the entry of path2 at the position of n within its path
Broadcast(path2, shape) ==
    Tensor(shape, [n \in 1..Prod(shape) |-> path2.data[((n - 1) % Len(path2.data)) + 1]])

\* _impl.l2_discrepancy(times, path1, path2, arg): shape path1.shape[:-2].
\* With q three times the integral, the value sqrt(q / 3) is sqrt(3 q) / 3
L2Kernel(times, path1, path2, arg) ==
    LET dims1 == BatchDims(path1)
        d == Sub(path1, Broadcast(path2, path1.shape))
        ad == IF Rank(arg) = 2 THEN MatMul(d, arg)
              ELSE IF Rank(arg) = 1 THEN Mul(d, arg)
              ELSE d
        flat == Tensor(<<Prod(dims1), ad.shape[Len(ad.shape) - 1], LastDim(ad)>>, ad.data)
    IN  Tensor(dims1, [n \in 1..Prod(dims1) |-> SqrtOver(3 * L2Integral3(times, flat, n), 3)])

\* the kernel called on objects of memory h: it reads its four arguments and
\* returns a tensor of its own
L2KernelCall(h, times, path1, path2, arg) ==
    New(h, L2Kernel(Value(h, times), Value(h, path1), Value(h, path2), Value(h, arg)))

\* line 27: return self.fn(time, path1, path2, self.arg)
L2ForwardResult(i, times, path1, path2) ==
    LET h0 == CallerMemory(i, times, path1, path2)
        ok == L2KernelAccepts(path1, path2, i.linear)
        hK == IF ok THEN L2KernelCall(h0, Args.times, Args.path1, Args.path2, Args.param)
              ELSE h0
        c == [cls |-> "L2", self |-> i, times |-> times, path1 |-> path1,
              path2 |-> path2,
              status |-> IF ok THEN "ok" ELSE "ShapeError",
              work |-> <<"fn">>,
              chans |-> << >>,
              diff |-> None,
              value |-> IF ok THEN Value(hK, hK.ret) ELSE None,
              after |-> TensorsIn(hK), selfAfter |-> SelfIn(i, hK),
              again |-> FALSE, first |-> << >>]
    IN  [c EXCEPT !.first = [status |-> c.status, value |-> c.value]]

L2Forward ==
    /\ inst.cls = "L2"
    /\ call = NoCall
    /\ \E len \in Lengths, c1 \in Channels, c2 \in Channels, dims \in BatchPairs,
          s1 \in Seeds, s2 \in Seeds :
          call' = L2ForwardResult(inst, TimesOf(len),
                                  PathOf(dims[1], len, c1, s1),
                                  PathOf(dims[2], len, c2, s2))
    /\ inst' = call'.selfAfter
    /\ UNCHANGED <<env, module, ctor>>

L2ForwardAgain ==
    /\ call.cls = "L2"
    /\ ~call.again
    /\ call' = [L2ForwardResult(inst, call.after[1], call.after[2], call.after[3])
                   EXCEPT !.again = TRUE, !.first = call.first]
    /\ inst' = call'.selfAfter
    /\ UNCHANGED <<env, module, ctor>>

(***************************************************************************)
(* The specification.                                                      *)
(***************************************************************************)
Init ==
    /\ env \in [impl : BOOLEAN, signatory : BOOLEAN]
    /\ module = [state |-> "unloaded", signatory |-> FALSE, fn |-> "none"]
    /\ inst = NoInst
    /\ ctor = NoCtor
    /\ call = NoCall

Next ==
    \/ ImportModule
    \/ L2Init
    \/ LogsigInit
    \/ Discard
    \/ OptimizerStep
    \/ Return
    \/ L2Forward
    \/ L2ForwardAgain
    \/ LogsigForward
    \/ LogsigForwardAgain

Spec == Init /\ [][Next]_vars

(***************************************************************************)
(* Definitions the properties are stated with.                             *)
(***************************************************************************)
\* the value 0 as a p-norm gives it
Zero(p) == IF p = "2" THEN Sqrt(0) ELSE 0

\* the call recorded is one of LogsignatureDiscrepancy.forward
IsLogsigCall == call.cls = "Logsig"

\* the channel counts of the recorded call's two paths
Chan1 == LastDim(call.path1)
Chan2 == LastDim(call.path2)

\* both paths of the recorded call have the instance's in_channels channels
InContract == Chan1 = inst.in_channels /\ Chan2 = inst.in_channels

\* the logsignature dimension of the instance
InstD ==
    LogsignatureChannels(IF inst.include_time THEN inst.in_channels + 1
                         ELSE inst.in_channels, inst.depth)

\* the n-th path (1-based, batch flattened in row-major order) of a batched
\* path tensor, as a batch of one
SinglePath(path, n) ==
    LET len == path.shape[Len(path.shape) - 1]
        chans == LastDim(path)
    IN  Tensor(<<1, len, chans>>,
               [k \in 1..(len * chans) |-> path.data[(n - 1) * len * chans + k]])

\* a single path with the time grid as its first channel
WithTime(times, single) ==
    LET len == single.shape[2]
        chans == single.shape[3]
    IN  Tensor(<<1, len, chans + 1>>,
               [k \in 1..(len * (chans + 1)) |->
                   LET l == (k - 1) \div (chans + 1)
                       c == (k - 1) % (chans + 1)
                   IN  IF c = 0 THEN times.data[l + 1]
                       ELSE single.data[l * chans + c]])

\* the logsignature of the n-th path alone, time-augmented if the instance
\* says so
LogsigOf(times, path, n) ==
    LogsigOne(IF inst.include_time THEN WithTime(times, SinglePath(path, n))
              ELSE SinglePath(path, n), 1, inst.depth)

\* A applied to the vector v of length d: the identity, the diagonal vector
\* or the general matrix
ApplyA(v, d) ==
    IF ~inst.pseudometric THEN v
    ELSE IF inst.metric_type = "general"
    THEN [k \in 1..d |-> SumTo([m \in 1..d |-> v[m] * call.self.linear.data[(m - 1) * d + k]], d)]
    ELSE [k \in 1..d |-> v[k] * call.self.linear.data[k]]

\* the discrepancy of path a of path1 and path b of path2, computed for
\* that pair alone
PairValue(a, b) ==
    LET l1 == LogsigOf(call.times, call.path1, a)
        l2 == LogsigOf(call.times, call.path2, b)
        d == Len(l1)
    IN  VecNorm(ApplyA([k \in 1..d |-> l1[k] - l2[k]], d), d, inst.p)

N1 == Prod(BatchDims(call.path1))
N2 == Prod(BatchDims(call.path2))

(***************************************************************************)
(* C1.  For path1 of shape (B1..., L, C) and path2 of shape (B2..., L, C)  *)
(* forward returns a tensor of shape B1 followed by B2.                    *)
(* The statement fails: see C1_ReversedTimeChannel.                        *)
(***************************************************************************)
C1_ShapeLaw ==
    (IsLogsigCall /\ InContract) =>
        /\ call.status = "ok"
        /\ call.value.shape = BatchDims(call.path1) \o BatchDims(call.path2)

\* where it fails: include_time with a batch shape of rank 2 that is not
\* its own reverse makes torch.cat raise
C1_ReversedTimeChannel ==
    (IsLogsigCall /\ InContract /\ call.status # "ok") =>
        /\ inst.include_time
        /\ \E b \in {BatchDims(call.path1), BatchDims(call.path2)} :
              Len(b) = 2 /\ b[1] # b[2]

(***************************************************************************)
(* C2.  Whenever forward returns for two paths of equal channel count and  *)
(* a dimension-matched A, the entry at (i, j) of the output is the p-norm  *)
(* of A applied to logsig(path1[i]) - logsig(path2[j]): every element of   *)
(* path1 is compared with every element of path2, and flattening and       *)
(* restoring the batch dimensions does not permute or mix them.            *)
(***************************************************************************)
C2_OuterProduct ==
    (IsLogsigCall /\ call.status = "ok" /\ InContract) =>
        /\ Len(call.value.data) = N1 * N2
        /\ \A a \in 1..N1, b \in 1..N2 :
              call.value.data[(a - 1) * N2 + b] = PairValue(a, b)

\* a returned 2 x 3 output with a learnt general A whose entries are not all
\* alike
C2_Witness ==
    /\ IsLogsigCall /\ call.status = "ok" /\ InContract
    /\ inst.pseudometric /\ inst.metric_type = "general" /\ inst.include_time
    /\ call.value.shape = <<2, 3>>
    /\ \E a \in 1..6, b \in 1..6 : call.value.data[a] # call.value.data[b]

(***************************************************************************)
(* C3.  When path1 and path2 have different channel counts the call fails  *)
(* before any tensor work, and never returns a result.                     *)
(* The statement fails on the code.                                        *)
(***************************************************************************)
C3_MismatchFailsFirst ==
    (IsLogsigCall /\ Chan1 # Chan2) => (call.status # "ok" /\ call.work = << >>)

\* the weaker half of C3 alone: a mismatched pair is never turned into a
\* result.  It fails too.
C3_NeverCoerced ==
    (IsLogsigCall /\ Chan1 # Chan2) => call.status # "ok"

(***************************************************************************)
(* C4.  L2Discrepancy.forward with a batched path2 raises before the       *)
(* kernel fn is invoked; fn is only reached with an unbatched path2.       *)
(* The statement fails on the code.                                        *)
(***************************************************************************)
C4_KernelNotReached ==
    (call.cls = "L2" /\ Rank(call.path2) > 2) =>
        (call.status = "ShapeError" /\ call.work = << >>)

(***************************************************************************)
(* C5.  Constructing either discrepancy with a metric_type that is not     *)
(* recognised fails with the assertion error, before any parameter is      *)
(* allocated, and no instance with such a metric_type exists.              *)
(***************************************************************************)
C5_BogusModeRejected ==
    /\ (ctor.cls # "none" /\ ctor.metric_type \notin {"general", "diagonal"}) =>
          /\ ctor.error = "AssertionError"
          /\ ctor.created = << >>
          /\ inst = NoInst
    /\ inst # NoInst => inst.metric_type \in {"general", "diagonal"}

C5_Witness ==
    /\ ctor.cls = "Logsig"
    /\ ctor.metric_type = "bogus"
    /\ ctor.error = "AssertionError"

(***************************************************************************)
(* C6, as stated.  Without signatory every construction of a               *)
(* LogsignatureDiscrepancy fails with the ImportError, before anything is  *)
(* created.                                                                *)
(***************************************************************************)
C6_AlwaysImportError ==
    (module.state = "loaded" /\ ~module.signatory /\ ctor.cls = "Logsig") =>
        (ctor.error = "ImportError" /\ ctor.created = << >>)

(***************************************************************************)
(* C6, amended.  Without signatory every construction of a                 *)
(* LogsignatureDiscrepancy fails in the constructor, before anything is    *)
(* created: with the ImportError when metric_type is valid and with the    *)
(* assertion error on metric_type, which is checked first, otherwise.  No  *)
(* instance exists, so no call runs on one.                                *)
(***************************************************************************)
C6_FailsAtConstruction ==
    (module.state = "loaded" /\ ~module.signatory) =>
        /\ ctor.cls = "Logsig" =>
              /\ ctor.created = << >>
              /\ ctor.error = IF ctor.metric_type \in {"general", "diagonal"}
                              THEN "ImportError" ELSE "AssertionError"
        /\ inst.cls # "Logsig"
        /\ call.cls # "Logsig"

C6_Witness ==
    /\ module.state = "loaded" /\ ~module.signatory
    /\ ctor.cls = "Logsig"
    /\ ctor.error = "ImportError"

(***************************************************************************)
(* C7.  With the identity pseudometric the discrepancy of a path against   *)
(* itself is zero: an unbatched path gives 0, and for a batch of paths     *)
(* every entry that compares a path with itself is 0 whenever the call     *)
(* returns.                                                                *)
(***************************************************************************)
C7_SelfDiscrepancyZero ==
    (IsLogsigCall /\ ~inst.pseudometric /\ call.path1 = call.path2) =>
        /\ BatchDims(call.path1) = << >> =>
              (call.status = "ok" /\ call.value = Tensor(<< >>, <<Zero(inst.p)>>))
        /\ call.status = "ok" =>
              \A a \in 1..N1 : call.value.data[(a - 1) * N1 + a] = Zero(inst.p)

\* two different paths compared with themselves and with each other
C7_Witness ==
    /\ IsLogsigCall /\ ~inst.pseudometric /\ call.path1 = call.path2
    /\ call.status = "ok"
    /\ call.value.shape = <<2, 2>>
    /\ inst.p = "2"
    /\ call.value.data[1] = Sqrt(0) /\ call.value.data[4] = Sqrt(0)
    /\ call.value.data[2].rad > 1

(***************************************************************************)
(* C8.  Without the native kernel _impl a fallback is substituted: the     *)
(* module still loads and L2Discrepancy has an implementation to call.     *)
(* The statement fails on the code.                                        *)
(***************************************************************************)
C8_FallbackSubstituted ==
    (~env.impl /\ module.state # "unloaded") =>
        (module.state = "loaded" /\ module.fn # "none")

\* where it fails: without _impl the import itself raises, so that there is
\* no class, no instance and no call
C8_ImportFails ==
    ~env.impl =>
        /\ module.state \in {"unloaded", "ImportError"}
        /\ module.fn = "none"
        /\ inst = NoInst
        /\ call = NoCall

(***************************************************************************)
(* C9.  Every call of forward, of either class, leaves the instance (the   *)
(* values and the shape of its parameter, and its configuration) and the   *)
(* caller's times, path1 and path2 as it found them, and a call made again *)
(* after it, on the instance and the tensors as the call before left them, *)
(* ends as the first call did: with the same value, or the same error.     *)
(***************************************************************************)
C9_Stateless ==
    call # NoCall =>
        /\ inst = call.self
        /\ call.after = <<call.times, call.path1, call.path2>>
        /\ call.status = call.first.status
        /\ call.value = call.first.value

\* a second call that ran every in-place operation of forward, with the time
\* channel and a learnt parameter, on batched paths
C9_Witness ==
    /\ IsLogsigCall /\ call.again /\ call.status = "ok"
    /\ inst.include_time /\ inst.pseudometric
    /\ BatchDims(call.path1) # << >> /\ BatchDims(call.path2) # << >>
    /\ \E n \in 1..Len(inst.linear.data) : inst.linear.data[n] # 0

(***************************************************************************)
(* C10.  The parameter of a LogsignatureDiscrepancy is absent without      *)
(* pseudometric, a vector of length D in diagonal mode and a D x D matrix  *)
(* in general mode, D = logsignature_channels(in_channels + 1 if           *)
(* include_time else in_channels, depth); and in a call with paths of      *)
(* in_channels channels the augmentation adds one channel to both paths    *)
(* with include_time and none without, and the logsignature difference     *)
(* has last dimension D.                                                   *)
(***************************************************************************)
C10_ParameterDimension ==
    /\ inst.cls = "Logsig" =>
          inst.linear.shape =
              IF ~inst.pseudometric THEN << >>
              ELSE IF inst.metric_type = "general" THEN <<InstD, InstD>>
              ELSE <<InstD>>
    /\ inst.cls = "Logsig" => (inst.linear = None <=> ~inst.pseudometric)
    /\ (IsLogsigCall /\ InContract /\ call.chans # << >>) =>
          /\ call.chans = IF inst.include_time
                          THEN <<inst.in_channels + 1, inst.in_channels + 1>>
                          ELSE <<inst.in_channels, inst.in_channels>>
          /\ call.status = "ok"
          /\ LastDim(call.diff) = InstD

C10_Witness ==
    /\ IsLogsigCall /\ InContract /\ call.status = "ok"
    /\ inst.include_time /\ inst.pseudometric /\ inst.metric_type = "general"
    /\ inst.in_channels = 2 /\ inst.depth = 2
    /\ inst.linear.shape = <<6, 6>>
    /\ LastDim(call.diff) = 6

====
